---- MODULE Spec2Model ----
(***************************************************************************)
(* The upload-to-report pipeline of uxlaw: the POST /api/analyze handler   *)
(* (validate, call the model, parse and sanitize the reply, persist a      *)
(* Report row), the Report table it writes, the report page that reads a   *)
(* row, the client components that normalize a picture and submit it, and  *)
(* the draggable bottom sheet of the report page.                          *)
(*                                                                         *)
(* JavaScript values are tagged records.  A string is either a run-length  *)
(* encoded text (a sequence of runs [c |-> char, n |-> count], so that a   *)
(* data URL of two million characters is one small value whose length,     *)
(* prefix and slices are computed exactly) or an opaque literal (the fixed *)
(* messages of the code, which are only tested for emptiness and passed    *)
(* on).  A run [json |-> v] stands for the JSON text that serialises v.    *)
(***************************************************************************)
EXTENDS Integers, Sequences, FiniteSets, TLC

----------------------------------------------------------------------------
(* Bounds of the model *)

\* concurrent executions of the handler
NumHandlers == 2
\* requests received over a whole behaviour
MaxRequests == 2

(* Program constants *)

MAX_IMAGE_DATAURL_CHARS == 2000000
NARRATIVE_MAX_CHARS == 1500
TOP_FIXES_MAX == 3
SCORE_MIN == 0
SCORE_MAX == 100

----------------------------------------------------------------------------
(* JavaScript values *)

Undefined == [t |-> "undefined"]
Null == [t |-> "null"]
Bool(b) == [t |-> "boolean", b |-> b]
\* the finite number n/d (d > 0)
Num(n, d) == [t |-> "number", n |-> n, d |-> d]
NaN == [t |-> "number", nan |-> TRUE]
\* run-length encoded text
Str(runs) == [t |-> "string", runs |-> runs]
\* opaque literal text
Text(lit) == [t |-> "string", lit |-> lit]
Arr(items) == [t |-> "array", items |-> items]
\* entries: a sequence of [k |-> key, v |-> value], keys distinct, in
\* own-property enumeration order
Obj(entries) == [t |-> "object", entries |-> entries]

Run(c, n) == [c |-> c, n |-> n]
Doc(v) == [json |-> v]
Ent(k, v) == [k |-> k, v |-> v]

EmptyStr == Str(<<>>)
EmptyObj == Obj(<<>>)
EmptyArr == Arr(<<>>)

IsNaN(v) == v.t = "number" /\ "nan" \in DOMAIN v
IsNumber(v) == v.t = "number" /\ "n" \in DOMAIN v
IsRunStr(v) == v.t = "string" /\ "runs" \in DOMAIN v
IsText(v) == v.t = "string" /\ "lit" \in DOMAIN v
IsNullish(v) == v.t \in {"undefined", "null"}

\* typeof v
TypeOf(v) ==
  CASE v.t = "undefined" -> "undefined"
    [] v.t = "null" -> "object"
    [] v.t = "boolean" -> "boolean"
    [] v.t = "number" -> "number"
    [] v.t = "string" -> "string"
    [] v.t = "array" -> "object"
    [] v.t = "object" -> "object"

\* Array.isArray(v)
IsArray(v) == v.t = "array"

\* ToBoolean(v): the falsy values are undefined, null, false, 0, NaN and ""
Truthy(v) ==
  CASE v.t = "undefined" -> FALSE
    [] v.t = "null" -> FALSE
    [] v.t = "boolean" -> v.b
    [] v.t = "number" -> IF IsNaN(v) THEN FALSE ELSE v.n # 0
    [] v.t = "string" -> IF IsText(v) THEN v.lit # "" ELSE v.runs # <<>>
    [] v.t = "array" -> TRUE
    [] v.t = "object" -> TRUE

\* a ?? b
Coalesce(a, b) == IF IsNullish(a) THEN b ELSE a

\* a || b
OrElse(a, b) == IF Truthy(a) THEN a ELSE b

----------------------------------------------------------------------------
(* Strings *)

WhiteSpace == {" ", "\t", "\n"}
IsCharRun(r) == "c" \in DOMAIN r
IsWsRun(r) == IsCharRun(r) /\ r.c \in WhiteSpace

RECURSIVE RunsLen(_)
RunsLen(runs) ==
  IF runs = <<>> THEN 0 ELSE Head(runs).n + RunsLen(Tail(runs))

\* s.length
StrLen(s) == RunsLen(s.runs)

\* the i-th character (1-based) of a run sequence
RECURSIVE RunsCharAt(_, _)
RunsCharAt(runs, i) ==
  IF i <= Head(runs).n THEN Head(runs).c
  ELSE RunsCharAt(Tail(runs), i - Head(runs).n)

\* s.startsWith(p), p a sequence of characters
StartsWith(s, p) ==
  /\ Len(p) <= StrLen(s)
  /\ \A i \in 1..Len(p) : RunsCharAt(s.runs, i) = p[i]

RECURSIVE RunsTake(_, _)
RunsTake(runs, k) ==
  IF k <= 0 \/ runs = <<>> THEN <<>>
  ELSE IF Head(runs).n >= k THEN <<Run(Head(runs).c, k)>>
  ELSE <<Head(runs)>> \o RunsTake(Tail(runs), k - Head(runs).n)

\* s.slice(0, k)
StrSlice(s, k) == Str(RunsTake(s.runs, k))

RECURSIVE DropLeadingWs(_)
DropLeadingWs(runs) ==
  IF runs # <<>> /\ IsWsRun(Head(runs)) THEN DropLeadingWs(Tail(runs))
  ELSE runs

RECURSIVE DropTrailingWs(_)
DropTrailingWs(runs) ==
  IF runs # <<>> /\ IsWsRun(runs[Len(runs)])
  THEN DropTrailingWs(SubSeq(runs, 1, Len(runs) - 1))
  ELSE runs

\* s.trim()
StrTrim(s) == Str(DropTrailingWs(DropLeadingWs(s.runs)))

\* the characters of a run sequence, one by one
RECURSIVE RunsChars(_)
RunsChars(runs) ==
  IF runs = <<>> THEN <<>>
  ELSE [i \in 1..Head(runs).n |-> Head(runs).c] \o RunsChars(Tail(runs))

IsDigit(c) == c \in {"0", "1", "2", "3", "4", "5", "6", "7", "8", "9"}

DigitVal(c) ==
  CASE c = "0" -> 0 [] c = "1" -> 1 [] c = "2" -> 2 [] c = "3" -> 3
    [] c = "4" -> 4 [] c = "5" -> 5 [] c = "6" -> 6 [] c = "7" -> 7
    [] c = "8" -> 8 [] c = "9" -> 9

RECURSIVE DecValue(_)
DecValue(cs) ==
  IF cs = <<>> THEN 0
  ELSE DecValue(SubSeq(cs, 1, Len(cs) - 1)) * 10 + DigitVal(cs[Len(cs)])

AllDigits(cs) == cs # <<>> /\ \A i \in 1..Len(cs) : IsDigit(cs[i])

\* Number(s) for a text of digits, letters, signs and white space:
\* white space is trimmed, "" is 0, a signed run of digits is its decimal
\* value, anything else is NaN
StringToNumber(s) ==
  LET cs == RunsChars(StrTrim(s).runs)
      signed == cs # <<>> /\ cs[1] \in {"-", "+"}
      ds == IF signed THEN Tail(cs) ELSE cs
  IN IF cs = <<>> THEN Num(0, 1)
     ELSE IF AllDigits(ds)
          THEN Num(IF cs[1] = "-" THEN 0 - DecValue(ds) ELSE DecValue(ds), 1)
          ELSE NaN

----------------------------------------------------------------------------
(* Objects and arrays *)

IndexKeys == <<"0", "1", "2", "3", "4", "5", "6", "7", "8", "9">>
IndexKey(i) == IndexKeys[i + 1]
IsIndexKey(k) == \E i \in 1..Len(IndexKeys) : IndexKeys[i] = k

HasKey(entries, k) == \E i \in 1..Len(entries) : entries[i].k = k

EntryValue(entries, k) ==
  entries[CHOOSE i \in 1..Len(entries) : entries[i].k = k].v

\* the own enumerable properties of v, as entries
OwnEntries(v) ==
  CASE v.t = "object" -> v.entries
    [] v.t = "array" ->
         [i \in 1..Len(v.items) |-> Ent(IndexKey(i - 1), v.items[i])]
    [] OTHER -> <<>>

\* v[k] for a value v that is neither undefined nor null
GetProp(v, k) ==
  IF HasKey(OwnEntries(v), k) THEN EntryValue(OwnEntries(v), k)
  ELSE Undefined

\* v?.[k]
OptProp(v, k) == IF IsNullish(v) THEN Undefined ELSE GetProp(v, k)

\* entries with k set to v: in place when k is a key already, else last
SetEntry(entries, k, v) ==
  IF HasKey(entries, k)
  THEN [i \in 1..Len(entries) |->
          IF entries[i].k = k THEN Ent(k, v) ELSE entries[i]]
  ELSE Append(entries, Ent(k, v))

RECURSIVE AssignEntries(_, _)
AssignEntries(target, source) ==
  IF source = <<>> THEN target
  ELSE AssignEntries(SetEntry(target, Head(source).k, Head(source).v),
                     Tail(source))

\* property order of an object: integer keys first, then the others in
\* insertion order
KeyOrder(entries) ==
  SelectSeq(entries, LAMBDA e : IsIndexKey(e.k))
    \o SelectSeq(entries, LAMBDA e : ~IsIndexKey(e.k))

\* { ...a, ...b } : the object with a's properties overwritten by b's
Spread(a, b) == Obj(KeyOrder(AssignEntries(OwnEntries(a), OwnEntries(b))))

\* arr.slice(0, k)
ArrSlice(arr, k) ==
  Arr(SubSeq(arr.items, 1, IF Len(arr.items) < k THEN Len(arr.items) ELSE k))

----------------------------------------------------------------------------
(* Numbers *)

IsInteger(x) == IsNumber(x) /\ x.n % x.d = 0

NumLeq(a, b) == a.n * b.d <= b.n * a.d

\* Math.min(a, b)
MathMin(a, b) ==
  IF IsNaN(a) \/ IsNaN(b) THEN NaN ELSE IF NumLeq(a, b) THEN a ELSE b

\* Math.max(a, b)
MathMax(a, b) ==
  IF IsNaN(a) \/ IsNaN(b) THEN NaN ELSE IF NumLeq(a, b) THEN b ELSE a

\* Number(v): undefined is NaN, null 0, booleans 1 and 0; a string by
\* StringToNumber; an array through its join(","), an object through
\* "[object Object]"
RECURSIVE ToNumber(_)
ToNumber(v) ==
  CASE v.t = "undefined" -> NaN
    [] v.t = "null" -> Num(0, 1)
    [] v.t = "boolean" -> IF v.b THEN Num(1, 1) ELSE Num(0, 1)
    [] v.t = "number" -> v
    [] v.t = "string" -> StringToNumber(v)
    [] v.t = "array" ->
         IF Len(v.items) = 0 THEN Num(0, 1)
         ELSE IF Len(v.items) > 1 THEN NaN
         ELSE LET x == v.items[1]
              IN CASE IsNullish(x) -> Num(0, 1)
                   [] x.t \in {"number", "string", "array"} -> ToNumber(x)
                   [] OTHER -> NaN
    [] v.t = "object" -> NaN

\* a * b and a / b for numbers, b not zero
NumMul(a, b) == Num(a.n * b.n, a.d * b.d)
NumDiv(a, b) ==
  IF b.n > 0 THEN Num(a.n * b.d, a.d * b.n) ELSE Num(0 - a.n * b.d, 0 - a.d * b.n)

\* Math.round(x): the integer nearest to x, a half rounding up
MathRound(x) == (2 * x.n + x.d) \div (2 * x.d)

clampNoUpper(n, min, max) == MathMax(min, n)

\* clamp(n, min, max)
clamp(n, min, max) == MathMax(min, MathMin(max, n))

----------------------------------------------------------------------------
(* JSON.parse *)

ParseOk(v) == [ok |-> TRUE, value |-> v]
ParseFail == [ok |-> FALSE]

\* a JSON number over digits and "-": -?(0|[1-9][0-9]*)
IsJSONInt(cs) ==
  LET ds == IF cs # <<>> /\ cs[1] = "-" THEN Tail(cs) ELSE cs
  IN AllDigits(ds) /\ (Len(ds) > 1 => ds[1] # "0")

\* JSON.parse(s): white space around the text is skipped; the text of a
\* serialised value parses to that value, a decimal integer to its number,
\* and anything else (letters, a value followed by more text) is a
\* SyntaxError
JSONParse(s) ==
  LET runs == StrTrim(s).runs
  IN IF Len(runs) = 1 /\ ~IsCharRun(runs[1]) THEN ParseOk(runs[1].json)
     ELSE IF runs # <<>> /\ \A i \in 1..Len(runs) : IsCharRun(runs[i])
          THEN LET cs == RunsChars(runs)
               IN IF IsJSONInt(cs)
                  THEN ParseOk(Num(IF cs[1] = "-" THEN 0 - DecValue(Tail(cs))
                                   ELSE DecValue(cs), 1))
                  ELSE ParseFail
          ELSE ParseFail

----------------------------------------------------------------------------
(* The Report table and the handler's state *)

VARIABLES
  apiKeySet,   \* whether process.env.OPENAI_API_KEY is set
  reports,     \* the rows of the Report table, in order of creation
  handler,     \* the executions of POST: position, local variables, and
               \* calls, the number of model calls the execution has made
  received,    \* requests received so far
  page,        \* what the last load of a report page answered
  ui,          \* the mounted client component: its variant, its React
               \* state, the alerts it raised, where it navigated to
  uploads,     \* the files selected in it, each with the position of its
               \* FileReader / Image pipeline
  fetches,     \* the analysis requests it issued, each with the position
               \* of its continuation
  sheet        \* the bottom sheet of a report page: its React state, its
               \* refs, its listeners, and the updates and effects that
               \* React has still to run

vars ==
  <<apiKeySet, reports, handler, received, page, ui, uploads, fetches, sheet>>

Handlers == 1..NumHandlers

\* the id the store generates for the n-th row
ReportId(n) == [t |-> "string", id |-> n]

\* NextResponse.json(body, { status })
Json(status, entries) == [status |-> status, json |-> Obj(entries)]

\* new Error(message)
Error(message) == Obj(<<Ent("message", message)>>)

Idle ==
  [pc |-> "idle", req |-> Undefined, body |-> Undefined,
   completion |-> Undefined, raw |-> Undefined, parsed |-> Undefined,
   data |-> Undefined, report |-> Undefined, response |-> Undefined,
   calls |-> 0]

\* a request whose body text is not JSON / is the JSON text of v
Unparseable == [parses |-> FALSE]
Req(v) == [parses |-> TRUE, json |-> v]

----------------------------------------------------------------------------
(* POST: the steps of the handler *)

\* the catch block that never passes the error's message on
CatchGeneric(err) ==
  Json(500, <<Ent("error", Text("Internal server error"))>>)

\* the catch block: status 500 with the error's message, if it has one
Catch(err) ==
  Json(500, <<Ent("error", OrElse(OptProp(err, "message"),
                                  Text("Internal server error")))>>)

MissingKey == Json(500, <<Ent("error", Text("Missing OPENAI_API_KEY in .env"))>>)
MissingUpload ==
  Json(400, <<Ent("error", Text("Missing screenshot upload (imageDataUrl)"))>>)
TooLarge ==
  Json(413, <<Ent("error", Text("Screenshot is too large. Upload a smaller image (or compress it) and try again."))>>)
\* the response without its { status: 500 }
EmptyReplyNoStatus ==
  Json(200, <<Ent("error", Text("Model returned empty response"))>>)

EmptyReply == Json(500, <<Ent("error", Text("Model returned empty response"))>>)
InvalidJSON(raw) ==
  Json(500, <<Ent("error", Text("Model did not return valid JSON")),
              Ent("raw", raw)>>)
\* the id of the first row of the table, whichever row was created
CreatedFirstId(report) == Json(200, <<Ent("reportId", ReportId(1))>>)

\* NextResponse.json({ reportId: report.id })
Created(report) == Json(200, <<Ent("reportId", report.id)>>)

BodySyntaxError == Error(Text("Unexpected token in JSON"))
StartsWithTypeError ==
  Error(Text("body.imageDataUrl.startsWith is not a function"))
NullReadTypeError ==
  Error(Text("Cannot read properties of null (reading 'score')"))
IntegerExpectedError ==
  Error(Text("Invalid prisma.report.create() invocation: score is not an Int"))

DataImagePrefix == <<"d", "a", "t", "a", ":", "i", "m", "a", "g", "e", "/">>

Pass == [kind |-> "pass"]
Return(response) == [kind |-> "return", response |-> response]
Throw(err) == [kind |-> "throw", err |-> err]

\* the size check first, the payload check second
ValidateSizeFirst(body) ==
  LET url == OptProp(body, "imageDataUrl")
  IN IF IsRunStr(url) /\ StrLen(url) > MAX_IMAGE_DATAURL_CHARS
     THEN Return(TooLarge)
     ELSE IF ~Truthy(url) THEN Return(MissingUpload)
     ELSE IF ~IsRunStr(url) THEN Throw(StartsWithTypeError)
     ELSE IF ~StartsWith(url, DataImagePrefix) THEN Return(MissingUpload)
     ELSE Pass

\* the size check with >= for >
ValidateOffByOne(body) ==
  LET url == OptProp(body, "imageDataUrl")
  IN IF ~Truthy(url) THEN Return(MissingUpload)
     ELSE IF ~IsRunStr(url) THEN Throw(StartsWithTypeError)
     ELSE IF ~StartsWith(url, DataImagePrefix) THEN Return(MissingUpload)
     ELSE IF StrLen(url) >= MAX_IMAGE_DATAURL_CHARS THEN Return(TooLarge)
     ELSE Pass

\* the checks of the parsed body: the payload check, where startsWith is
\* a TypeError on a truthy imageDataUrl that is no string, then the size
Validate(body) ==
  LET url == OptProp(body, "imageDataUrl")
  IN IF ~Truthy(url) THEN Return(MissingUpload)
     ELSE IF ~IsRunStr(url) THEN Throw(StartsWithTypeError)
     ELSE IF ~StartsWith(url, DataImagePrefix) THEN Return(MissingUpload)
     ELSE IF StrLen(url) > MAX_IMAGE_DATAURL_CHARS THEN Return(TooLarge)
     ELSE Pass

\* completion.choices?.[0]?.message?.content
Content(completion) ==
  OptProp(OptProp(OptProp(GetProp(completion, "choices"), "0"), "message"),
          "content")

rawUntrimmed(completion) == Content(completion)

\* completion.choices?.[0]?.message?.content?.trim(), for a content that
\* is a string, null or undefined
raw(completion) ==
  IF IsNullish(Content(completion)) THEN Undefined
  ELSE StrTrim(Content(completion))

\* clamp(Number(parsed.score ?? 0), 0, 100)
score(parsed) ==
  clamp(ToNumber(Coalesce(GetProp(parsed, "score"), Num(0, 1))),
        Num(SCORE_MIN, 1), Num(SCORE_MAX, 1))

topFixesLast(parsed) ==
  LET tf == GetProp(parsed, "topFixes")
  IN IF IsArray(tf) /\ Len(tf.items) > TOP_FIXES_MAX
     THEN Arr(SubSeq(tf.items, Len(tf.items) - TOP_FIXES_MAX + 1, Len(tf.items)))
     ELSE IF IsArray(tf) THEN tf ELSE EmptyArr

\* Array.isArray(parsed.topFixes) ? parsed.topFixes.slice(0, 3) : []
topFixes(parsed) ==
  IF IsArray(GetProp(parsed, "topFixes"))
  THEN ArrSlice(GetProp(parsed, "topFixes"), TOP_FIXES_MAX)
  ELSE EmptyArr

\* typeof parsed.narrative === "string" ? parsed.narrative.slice(0, 1500) : ""
narrative(parsed) ==
  IF TypeOf(GetProp(parsed, "narrative")) = "string"
  THEN StrSlice(GetProp(parsed, "narrative"), NARRATIVE_MAX_CHARS)
  ELSE EmptyStr

\* parsed.laws && typeof parsed.laws === "object" ? parsed.laws : {}
laws(parsed) ==
  IF Truthy(GetProp(parsed, "laws")) /\ TypeOf(GetProp(parsed, "laws")) = "object"
  THEN GetProp(parsed, "laws")
  ELSE EmptyObj

\* { narrative, ...laws }
lawsToStore(parsed) ==
  Spread(Obj(<<Ent("narrative", narrative(parsed))>>), laws(parsed))

\* the data argument of prisma.report.create
CreateData(body, parsed) ==
  [imageDataUrl |-> GetProp(body, "imageDataUrl"),
   goal |-> EmptyStr,
   navItems |-> 0, ctaCount |-> 0, formFields |-> 0,
   score |-> score(parsed),
   topFixes |-> topFixes(parsed),
   laws |-> lawsToStore(parsed)]

\* the Report table takes a row whose score is an integer ("score" INTEGER)
StoreAccepts(data) == IsInteger(data.score)

\* the row the store creates from data, with the id it generates
NewRow(data) ==
  [id |-> ReportId(Len(reports) + 1),
   imageDataUrl |-> data.imageDataUrl,
   goal |-> data.goal,
   navItems |-> data.navItems, ctaCount |-> data.ctaCount,
   formFields |-> data.formFields,
   score |-> data.score,
   topFixes |-> data.topFixes,
   laws |-> data.laws]

Respond(h, st, response) ==
  handler' = [handler EXCEPT ![h] = [st EXCEPT !.pc = "done",
                                               !.response = response]]

\* a request arrives: the credential check, then await req.json()
Receive(h, req, max) ==
  /\ handler[h].pc = "idle"
  /\ received < max
  /\ received' = received + 1
  /\ IF ~apiKeySet
     THEN Respond(h, [handler[h] EXCEPT !.req = req], MissingKey)
     ELSE handler' = [handler EXCEPT ![h] = [@ EXCEPT !.pc = "readBody",
                                                      !.req = req]]
  /\ UNCHANGED <<sheet, apiKeySet, reports, page, ui, uploads, fetches>>

\* req.json() settles: the body is validated and the model is called
ReadBody(h) ==
  /\ handler[h].pc = "readBody"
  /\ LET st == handler[h]
     IN IF ~st.req.parses THEN Respond(h, st, Catch(BodySyntaxError))
        ELSE LET body == st.req.json
                 st1 == [st EXCEPT !.body = body]
                 v == Validate(body)
             IN CASE v.kind = "return" -> Respond(h, st1, v.response)
                  [] v.kind = "throw" -> Respond(h, st1, Catch(v.err))
                  [] v.kind = "pass" ->
                       handler' = [handler EXCEPT ![h] =
                                     [st1 EXCEPT !.pc = "awaitModel",
                                                 !.calls = @ + 1]]
  /\ UNCHANGED <<sheet, apiKeySet, reports, received, page, ui, uploads, fetches>>

\* the model call resolves: the reply is trimmed, parsed and sanitized, and
\* prisma.report.create is called
ModelReturns(h, completion) ==
  /\ handler[h].pc = "awaitModel"
  /\ LET st == [handler[h] EXCEPT !.completion = completion,
                                  !.raw = raw(completion)]
     IN IF ~Truthy(st.raw) THEN Respond(h, st, EmptyReply)
        ELSE IF ~JSONParse(st.raw).ok THEN Respond(h, st, InvalidJSON(st.raw))
        ELSE LET parsed == JSONParse(st.raw).value
                 st1 == [st EXCEPT !.parsed = parsed]
             IN IF IsNullish(parsed)
                THEN Respond(h, st1, Catch(NullReadTypeError))
                ELSE handler' = [handler EXCEPT ![h] =
                       [st1 EXCEPT !.pc = "awaitCreate",
                                   !.data = CreateData(st.body, parsed)]]
  /\ UNCHANGED <<sheet, apiKeySet, reports, received, page, ui, uploads, fetches>>

\* the model call rejects and is made again
ModelThrowsRetries(h, err) ==
  /\ handler[h].pc = "awaitModel"
  /\ handler' = [handler EXCEPT ![h].calls = @ + 1]
  /\ UNCHANGED <<sheet, apiKeySet, reports, received, page, ui, uploads, fetches>>

\* the model call rejects
ModelThrows(h, err) ==
  /\ handler[h].pc = "awaitModel"
  /\ Respond(h, handler[h], Catch(err))
  /\ UNCHANGED <<sheet, apiKeySet, reports, received, page, ui, uploads, fetches>>

\* the row is written and the handler fails afterwards
CreateResolvesThenFails(h) ==
  /\ handler[h].pc = "awaitCreate"
  /\ StoreAccepts(handler[h].data)
  /\ reports' = Append(reports, NewRow(handler[h].data))
  /\ Respond(h, handler[h], Catch(Undefined))
  /\ UNCHANGED <<sheet, apiKeySet, received, page, ui, uploads, fetches>>

\* prisma.report.create resolves: the row exists, its id is returned
CreateResolves(h) ==
  /\ handler[h].pc = "awaitCreate"
  /\ StoreAccepts(handler[h].data)
  /\ LET report == NewRow(handler[h].data)
     IN /\ reports' = Append(reports, report)
        /\ Respond(h, [handler[h] EXCEPT !.report = report], Created(report))
  /\ UNCHANGED <<sheet, apiKeySet, received, page, ui, uploads, fetches>>

\* prisma.report.create rejects: the data does not fit the table, or the
\* store fails
CreateThrows(h, err) ==
  /\ handler[h].pc = "awaitCreate"
  /\ StoreAccepts(handler[h].data) <=> err # IntegerExpectedError
  /\ Respond(h, handler[h], Catch(err))
  /\ UNCHANGED <<sheet, apiKeySet, reports, received, page, ui, uploads, fetches>>

\* the response is sent and the execution ends
Deliver(h) ==
  /\ handler[h].pc = "done"
  /\ handler' = [handler EXCEPT ![h] = Idle]
  /\ UNCHANGED <<sheet, apiKeySet, reports, received, page, ui, uploads, fetches>>

----------------------------------------------------------------------------
(* ResultsPage: the report page of an id *)

NoPage == [view |-> "none"]
NotFoundView == [view |-> "notFound"]
\* rendering threw: the page answers with the framework's error view
RenderError(err) == [view |-> "error", err |-> err]
ReportView(id, image, sc, narr, fixes, cards) ==
  [view |-> "report", id |-> id, image |-> image, score |-> sc,
   narrative |-> narr, topFixes |-> fixes, findings |-> cards]

ItemTypeError ==
  Error(Text("Cannot read properties of null (reading 'severity')"))
ObjectChildError == Error(Text("Objects are not valid as a React child"))

\* the first row of the table, whatever the id
findFirst(id) == IF reports # <<>> THEN reports[1] ELSE Null

\* prisma.report.findUnique({ where: { id } }): the row of that id, or null
findUnique(id) ==
  IF \E i \in 1..Len(reports) : reports[i].id = id
  THEN reports[CHOOSE i \in 1..Len(reports) : reports[i].id = id]
  ELSE Null

\* the colours of a severity tag: those of High, of Medium, and the grey
\* of Low for every other value
severityStyle(sev) ==
  IF sev = Text("High") THEN "High"
  ELSE IF sev = Text("Medium") THEN "Medium"
  ELSE "Low"

\* a value in braces inside an element: a text or number is shown, null,
\* undefined and booleans show nothing, a list shows its items, and an
\* object is refused
RECURSIVE IsChild(_)
IsChild(v) ==
  CASE v.t = "object" -> FALSE
    [] v.t = "array" -> \A i \in 1..Len(v.items) : IsChild(v.items[i])
    [] OTHER -> TRUE

Shown(v) == IF v.t \in {"undefined", "null", "boolean"} THEN EmptyStr ELSE v

\* Object.fromEntries(Object.entries(lawsAll).filter(([key]) => key !== "narrative"))
lawsOnly(lawsAll) ==
  Obj(KeyOrder(SelectSeq(OwnEntries(lawsAll), LAMBDA e : e.k # "narrative")))

\* the card of one law: its key, title, severity with its tag, finding
Card(e) ==
  [key |-> e.k,
   title |-> Shown(GetProp(e.v, "title")),
   severity |-> Shown(GetProp(e.v, "severity")),
   tag |-> severityStyle(GetProp(e.v, "severity")),
   finding |-> Shown(GetProp(e.v, "finding"))]

\* every law, not the first three
CardEntriesAll(lawsObj) == OwnEntries(lawsObj)

\* Object.entries(laws).slice(0, 3)
CardEntries(lawsObj) == ArrSlice(Arr(OwnEntries(lawsObj)), 3).items

\* the page of report: score, narrative, top fixes and law cards
RenderReport(report) ==
  LET fixes == Coalesce(report.topFixes, EmptyArr)
      lawsAll == Coalesce(report.laws, EmptyObj)
      narr == IF TypeOf(GetProp(lawsAll, "narrative")) = "string"
              THEN GetProp(lawsAll, "narrative")
              ELSE EmptyStr
      entries == CardEntries(lawsOnly(lawsAll))
  IN IF \E i \in 1..Len(entries) : IsNullish(entries[i].v)
     THEN RenderError(ItemTypeError)
     ELSE IF \/ ~IsChild(fixes)
             \/ \E i \in 1..Len(entries) :
                  \E k \in {"title", "severity", "finding"} :
                    ~IsChild(GetProp(entries[i].v, k))
          THEN RenderError(ObjectChildError)
          ELSE ReportView(report.id, report.imageDataUrl,
                          report.score, narr,
                          [i \in 1..Len(fixes.items) |-> Shown(fixes.items[i])],
                          [i \in 1..Len(entries) |-> Card(entries[i])])

\* ResultsPage({ params }): the not-found view, or the report's page
ResultsPage(id) ==
  IF findUnique(id) = Null THEN NotFoundView
  ELSE RenderReport(findUnique(id))

\* the page load that also writes to the row it shows
LoadPageCountsView(id) ==
  /\ page' = ResultsPage(id)
  /\ reports' = [i \in 1..Len(reports) |->
                   IF reports[i].id = id
                   THEN [reports[i] EXCEPT !.navItems = @ + 1]
                   ELSE reports[i]]
  /\ UNCHANGED <<sheet, apiKeySet, handler, received, ui, uploads, fetches>>

\* GET /results/[id]
LoadPage(id) ==
  /\ page' = ResultsPage(id)
  /\ UNCHANGED <<sheet, apiKeySet, reports, handler, received, ui, uploads, fetches>>

----------------------------------------------------------------------------
(* The client components: HomePage, AnalyzePage and UploadButton.  A step
   is one callback (a change or click handler, an onload or onerror, the
   continuation of an await) together with the render it causes and, in
   HomePage, the effect of that render. *)

Variants == {"HomePage", "AnalyzePage", "UploadButton"}

NoUI == [variant |-> "none"]

\* the component as it mounts: imagePreview null, isRunning false, error
\* null (UploadButton has isRunning only, and raises alerts)
Mounted(variant) ==
  [variant |-> variant, imagePreview |-> Null, isRunning |-> FALSE,
   error |-> Null, alerts |-> <<>>, location |-> Null]

NoFile == [kind |-> "none"]

\* new FileReader() and new Image() for a selected file
Upload(file) == [file |-> file, pc |-> "reading"]

\* fetch("/api/analyze", { method: "POST", body: { imageDataUrl } })
Fetch(imageDataUrl) ==
  [url |-> imageDataUrl, pc |-> "awaitFetch", res |-> Undefined]

\* a request whose continuation has run to its end
Settled(f) == [f EXCEPT !.pc = "settled", !.res = Undefined]

\* an upload whose reader and image are done with: as "done" or "failed"
Ended(pc) == [file |-> NoFile, pc |-> pc]

\* a response with this status whose body is the text of a JSON value, or
\* is no JSON
Res(response) == [status |-> response.status, body |-> Req(response.json)]
NoJsonRes(status) == [status |-> status, body |-> Unparseable]

\* res.ok for every response
resOkAlways(res) == TRUE

\* res.ok
resOk(res) == res.status >= 200 /\ res.status <= 299

ReportIdTypeError ==
  Error(Text("Cannot read properties of null (reading 'reportId')"))

\* `${v}` for a text, undefined, null or a boolean
TemplateString(v) ==
  CASE v.t = "string" -> v
    [] v.t = "undefined" -> Text("undefined")
    [] v.t = "null" -> Text("null")
    [] v.t = "boolean" -> IF v.b THEN Text("true") ELSE Text("false")

\* `/results/${reportId}`
ResultsPath(reportId) == [path |-> "/results/", id |-> TemplateString(reportId)]

MAX_W == 1200

\* Math.min(1, MAX_W / img.width) without the bound of 1
scaleToMaxW(width) == NumDiv(Num(MAX_W, 1), Num(width, 1))

\* const scale = Math.min(1, MAX_W / img.width); MAX_W / 0 is Infinity
scale(width) ==
  IF width = 0 THEN Num(1, 1)
  ELSE MathMin(Num(1, 1), NumDiv(Num(MAX_W, 1), Num(width, 1)))

RECURSIVE GCD(_, _)
GCD(a, b) == IF b = 0 THEN a ELSE GCD(b, a % b)

RECURSIVE IsPowerOfTwo(_)
IsPowerOfTwo(n) == n = 1 \/ (n > 1 /\ n % 2 = 0 /\ IsPowerOfTwo(n \div 2))

\* whether the double MAX_W / width is the quotient itself: a quotient with
\* a power of two as its denominator
IsExact(width) ==
  width = 0 \/ width <= MAX_W \/ IsPowerOfTwo(width \div GCD(width, MAX_W))

\* Math.round(length * scale) as the double product can come out: the
\* product of img.width and a rounded MAX_W / img.width lies within a
\* rounding error of the exact one, which matters to Math.round only where
\* the exact product is half an integer
Rounded(length, width) ==
  LET exact == NumMul(Num(length, 1), scale(width))
  IN IF IsExact(width) \/ (2 * exact.n) % exact.d # 0 \/ exact.n % exact.d = 0
     THEN { MathRound(exact) }
     ELSE { MathRound(exact) - 1, MathRound(exact) }

\* canvas.width = w; canvas.height = h, for
\* w = Math.round(img.width * scale) and h = Math.round(img.height * scale)
Canvases(img) ==
  { [width |-> w, height |-> h] :
      w \in Rounded(img.width, img.width), h \in Rounded(img.height, img.width) }

\* an upload whose picture is drawn on this canvas
Drawn(canvas) == [file |-> NoFile, pc |-> "done", canvas |-> canvas]

\* canvas.toDataURL("image/jpeg", 0.75) of the canvas the picture is drawn
\* on: "data:," for a canvas without pixels
toDataURL(canvas, file) ==
  IF canvas.width = 0 \/ canvas.height = 0
  THEN Str(<<Run("d", 1), Run("a", 1), Run("t", 1), Run("a", 1), Run(":", 1),
             Run(",", 1)>>)
  ELSE file.jpeg

\* setError(message) where the component has an error state; the handlers
\* of UploadButton's reader and image are empty
setError(u, message) ==
  IF u.variant = "UploadButton" THEN u ELSE [u EXCEPT !.error = message]

\* the request's error shown to the user: setError(message), or
\* alert(message) in UploadButton
Surface(u, message) ==
  IF u.variant = "UploadButton"
  THEN [u EXCEPT !.alerts = Append(@, message)]
  ELSE [u EXCEPT !.error = message]

\* the message of every response that is not ok
notOkMessageGeneric(data) == Text("Analysis failed")

\* data?.error || "Analysis failed"
notOkMessage(data) == OrElse(OptProp(data, "error"), Text("Analysis failed"))

\* err?.message || "Network error"
caughtMessage(err) == OrElse(OptProp(err, "message"), Text("Network error"))

\* the start of analyze / runAnalysis: setError(null) (not in UploadButton),
\* setIsRunning(true)
Started(u) == [setError(u, Null) EXCEPT !.isRunning = TRUE]

\* the end of a request that failed: the message is surfaced and the flag
\* cleared (in the branch itself, or in AnalyzePage's finally)
Failed(u, message) == [Surface(u, message) EXCEPT !.isRunning = FALSE]

\* the end of a request that succeeded, where only the first success of a
\* component navigates
NavigatedOnce(u, path) ==
  IF u.location # Null THEN u
  ELSE IF u.variant = "AnalyzePage"
  THEN [u EXCEPT !.location = path, !.isRunning = FALSE]
  ELSE [u EXCEPT !.location = path]

\* the end of a request that succeeded: window.location.href = path, or
\* router.push(path); only AnalyzePage's finally clears the flag
Navigated(u, path) ==
  IF u.variant = "AnalyzePage"
  THEN [u EXCEPT !.location = path, !.isRunning = FALSE]
  ELSE [u EXCEPT !.location = path]

\* an effect that depends on isRunning as well as on imagePreview
EffectRunsOnFlag(before, after) ==
  /\ after.imagePreview # before.imagePreview \/ after.isRunning # before.isRunning
  /\ Truthy(after.imagePreview)
  /\ ~after.isRunning

\* HomePage's effect runs after a render that changed imagePreview, and
\* starts the analysis if there is a preview and no request is running
EffectRuns(before, after) ==
  /\ after.imagePreview # before.imagePreview
  /\ Truthy(after.imagePreview)
  /\ ~after.isRunning

\* the component mounts
Mount(variant) ==
  /\ ui = NoUI
  /\ ui' = Mounted(variant)
  /\ UNCHANGED <<sheet, apiKeySet, reports, handler, received, page, uploads, fetches>>

\* handleImageUpload: the change event of the file input, which HomePage
\* and UploadButton disable while isRunning
HandleImageUpload(file, max) ==
  /\ ui.variant \in Variants
  /\ Len(uploads) < max
  /\ ui.variant \in {"HomePage", "UploadButton"} => ~ui.isRunning
  /\ ui' = setError(ui, Null)
  /\ uploads' = IF file = NoFile THEN uploads ELSE Append(uploads, Upload(file))
  /\ UNCHANGED <<sheet, apiKeySet, reports, handler, received, page, fetches>>

\* reader.onload: img.src = reader.result
ReaderOnLoad(j) ==
  /\ j \in 1..Len(uploads)
  /\ uploads[j].pc = "reading"
  /\ uploads[j].file.kind # "unreadable"
  /\ uploads' = [uploads EXCEPT ![j].pc = "decoding"]
  /\ UNCHANGED <<sheet, apiKeySet, reports, handler, received, page, ui, fetches>>

\* reader.onerror
ReaderOnError(j) ==
  /\ j \in 1..Len(uploads)
  /\ uploads[j].pc = "reading"
  /\ uploads[j].file.kind = "unreadable"
  /\ ui' = setError(ui, Text("Failed to read file."))
  /\ uploads' = [uploads EXCEPT ![j] = Ended("failed")]
  /\ UNCHANGED <<sheet, apiKeySet, reports, handler, received, page, fetches>>

\* img.onerror
ImgOnError(j) ==
  /\ j \in 1..Len(uploads)
  /\ uploads[j].pc = "decoding"
  /\ uploads[j].file.kind = "corrupt"
  /\ ui' = setError(ui, Text("Unsupported image file."))
  /\ uploads' = [uploads EXCEPT ![j] = Ended("failed")]
  /\ UNCHANGED <<sheet, apiKeySet, reports, handler, received, page, fetches>>

\* img.onload: without a 2D context the upload ends; with one the picture
\* is drawn and encoded, and the data URL becomes the preview (HomePage,
\* whose effect may start the analysis; AnalyzePage) or is analysed at
\* once (UploadButton)
ImgOnLoad(j, ctx, max) ==
  /\ j \in 1..Len(uploads)
  /\ uploads[j].pc = "decoding"
  /\ uploads[j].file.kind = "image"
  /\ IF ~ctx
     THEN /\ ui' = setError(ui, Text("Could not read image."))
          /\ uploads' = [uploads EXCEPT ![j] = Ended("failed")]
          /\ UNCHANGED fetches
     ELSE \E canvas \in Canvases(uploads[j].file) :
            LET compressed == toDataURL(canvas, uploads[j].file)
                preview == [ui EXCEPT !.imagePreview = compressed]
                starts == CASE ui.variant = "HomePage" -> EffectRuns(ui, preview)
                            [] ui.variant = "AnalyzePage" -> FALSE
                            [] ui.variant = "UploadButton" -> TRUE
            IN /\ starts => Len(fetches) < max
               /\ ui' = CASE ui.variant = "UploadButton" -> Started(ui)
                          [] starts -> Started(preview)
                          [] OTHER -> preview
               /\ fetches' = IF starts THEN Append(fetches, Fetch(compressed))
                             ELSE fetches
               /\ uploads' = [uploads EXCEPT ![j] = Drawn(canvas)]
  /\ UNCHANGED <<sheet, apiKeySet, reports, handler, received, page>>

\* AnalyzePage's button, disabled without a preview and while isRunning:
\* runAnalysis up to its await
RunAnalysis(max) ==
  /\ ui.variant = "AnalyzePage"
  /\ Truthy(ui.imagePreview) /\ ~ui.isRunning
  /\ Len(fetches) < max
  /\ ui' = Started(ui)
  /\ fetches' = Append(fetches, Fetch(ui.imagePreview))
  /\ UNCHANGED <<sheet, apiKeySet, reports, handler, received, page, uploads>>

\* await fetch(...) resolves with a response
FetchResolves(r, res) ==
  /\ r \in 1..Len(fetches)
  /\ fetches[r].pc = "awaitFetch"
  /\ fetches' = [fetches EXCEPT ![r].pc = "awaitJson", ![r].res = res]
  /\ UNCHANGED <<sheet, apiKeySet, reports, handler, received, page, ui, uploads>>

\* request r ends and the component renders as after: HomePage's effect
\* follows the render
RequestEnds(r, after, max) ==
  LET starts == ui.variant = "HomePage" /\ EffectRuns(ui, after)
      settled == [fetches EXCEPT ![r] = Settled(@)]
  IN /\ starts => Len(fetches) < max
     /\ ui' = IF starts THEN Started(after) ELSE after
     /\ fetches' = IF starts THEN Append(settled, Fetch(after.imagePreview))
                   ELSE settled

\* await fetch(...) rejects: the catch block
FetchRejects(r, err, max) ==
  /\ r \in 1..Len(fetches)
  /\ fetches[r].pc = "awaitFetch"
  /\ RequestEnds(r, Failed(ui, caughtMessage(err)), max)
  /\ UNCHANGED <<sheet, apiKeySet, reports, handler, received, page, uploads>>

\* await res.json() settles: a body that is no JSON and a reportId read
\* from null go to the catch block, a response that is not ok shows its
\* error, and a response that is ok navigates to the report
ResJson(r, max) ==
  /\ r \in 1..Len(fetches)
  /\ fetches[r].pc = "awaitJson"
  /\ LET res == fetches[r].res
         data == res.body.json
         err == IF ~res.body.parses THEN BodySyntaxError ELSE ReportIdTypeError
         throws == ~res.body.parses \/ (resOk(res) /\ IsNullish(data))
     IN RequestEnds(r, IF throws THEN Failed(ui, caughtMessage(err))
                 ELSE IF ~resOk(res) THEN Failed(ui, notOkMessage(data))
                 ELSE Navigated(ui, ResultsPath(GetProp(data, "reportId"))),
              max)
  /\ UNCHANGED <<sheet, apiKeySet, reports, handler, received, page, uploads>>

----------------------------------------------------------------------------
(* DraggableBottomSheet.  touchstart is a React event of the sheet and
   touchend a listener of the document: both are discrete events, whose
   updates React renders before the next event, with the effects of the
   render.  touchmove is a listener of the document and a continuous
   event: its update is rendered in a later task of the scheduler, and the
   effects of that render run in a task after it, or at the latest before
   the next render; touch events can arrive between those tasks.
   Lengths are whole pixels. *)

NoSheet == [mounted |-> FALSE]

\* the sheet after its first render and the effects of it; position is the
\* position the finger last dragged the sheet to
Sheet(innerHeight) ==
  [mounted |-> TRUE, innerHeight |-> innerHeight,
   dragY |-> 0, isDragging |-> FALSE,
   startYRef |-> 0, startDragYRef |-> 0, currentDragYRef |-> 0,
   listening |-> FALSE, updates |-> <<>>, effects |-> <<>>,
   position |-> 0]

\* window.innerHeight * 0.8 and maxDrag * 0.5, for a viewport height that
\* makes both whole
maxDrag(s) == (s.innerHeight * 8) \div 10
threshold(s) == maxDrag(s) \div 2

Min(a, b) == IF a <= b THEN a ELSE b
Max(a, b) == IF a >= b THEN a ELSE b

\* Math.max(0, Math.min(maxDrag, startDragYRef.current + deltaY))
newPosition(s, clientY) ==
  Max(0, Min(maxDrag(s), s.startDragYRef + (clientY - s.startYRef)))

\* currentDragYRef.current > threshold ? maxDrag : 0
finalPosition(s) == IF s.currentDragYRef > threshold(s) THEN maxDrag(s) ELSE 0

\* the effects of the last render that have not run yet run now: the effect
\* on [dragY] writes the dragY of that render to currentDragYRef
Flushed(s) ==
  IF s.effects = <<>> THEN s
  ELSE [s EXCEPT !.currentDragYRef = s.effects[1], !.effects = <<>>]

\* the page with the sheet is shown
MountSheet(innerHeight) ==
  /\ sheet = NoSheet
  /\ sheet' = Sheet(innerHeight)
  /\ UNCHANGED <<apiKeySet, reports, handler, received, page, ui, uploads, fetches>>

\* handleTouchStart, and the render of setIsDragging(true) with its effect,
\* which adds the listeners; while isDragging is true already the update
\* changes nothing and nothing is rendered
handleTouchStart(clientY) ==
  /\ sheet.mounted
  /\ LET started == [sheet EXCEPT !.startYRef = clientY,
                                  !.startDragYRef = sheet.currentDragYRef]
     IN sheet' = IF sheet.isDragging THEN started
                 ELSE [Flushed(started) EXCEPT
                         !.isDragging = TRUE, !.listening = TRUE,
                         !.position = sheet.currentDragYRef]
  /\ UNCHANGED <<apiKeySet, reports, handler, received, page, ui, uploads, fetches>>

\* handleTouchMove, which is called while the listeners are added
handleTouchMove(clientY) ==
  /\ sheet.mounted /\ sheet.listening
  /\ sheet' = [sheet EXCEPT !.updates = <<newPosition(sheet, clientY)>>,
                            !.currentDragYRef = newPosition(sheet, clientY),
                            !.position = newPosition(sheet, clientY)]
  /\ UNCHANGED <<apiKeySet, reports, handler, received, page, ui, uploads, fetches>>

\* the scheduler's task that renders setDragY(newPosition): effects still
\* pending run first, and the effect on [dragY] is pending after a render
\* that changed dragY
RenderSheet ==
  /\ sheet.mounted /\ sheet.updates # <<>>
  /\ sheet' = [Flushed(sheet) EXCEPT
                 !.dragY = sheet.updates[1],
                 !.updates = <<>>,
                 !.effects = IF sheet.updates[1] # sheet.dragY
                             THEN <<sheet.updates[1]>> ELSE <<>>]
  /\ UNCHANGED <<apiKeySet, reports, handler, received, page, ui, uploads, fetches>>

\* the scheduler's task that runs the pending effects, which a pending
\* render precedes
FlushPassiveEffects ==
  /\ sheet.mounted /\ sheet.effects # <<>> /\ sheet.updates = <<>>
  /\ sheet' = Flushed(sheet)
  /\ UNCHANGED <<apiKeySet, reports, handler, received, page, ui, uploads, fetches>>

\* handleTouchEnd, which is called while the listeners are added, and the
\* render of setIsDragging(false) and setDragY(finalPosition) with its
\* effects: the listeners are removed and currentDragYRef is dragY
handleTouchEnd ==
  /\ sheet.mounted /\ sheet.listening
  /\ sheet' = [sheet EXCEPT !.isDragging = FALSE, !.listening = FALSE,
                            !.dragY = finalPosition(sheet),
                            !.currentDragYRef = finalPosition(sheet),
                            !.updates = <<>>, !.effects = <<>>]
  /\ UNCHANGED <<apiKeySet, reports, handler, received, page, ui, uploads, fetches>>

----------------------------------------------------------------------------
(* Requests, model replies and failures the environment supplies *)

Chars(p) == [i \in 1..Len(p) |-> Run(p[i], 1)]

\* a text of len characters that starts with the characters of prefix
DataUrl(prefix, len) ==
  Str(Chars(prefix)
        \o (IF len > Len(prefix) THEN <<Run("A", len - Len(prefix))>> ELSE <<>>))

DataTextPrefix == <<"d", "a", "t", "a", ":", "t", "e", "x", "t", "/">>

WithUrl(url) == Obj(<<Ent("imageDataUrl", url)>>)

\* a screenshot as the clients send it
Screenshot == DataUrl(DataImagePrefix, 40)
GoodRequest == Req(WithUrl(Screenshot))

Requests ==
  { Unparseable,
    Req(Null),
    Req(EmptyObj),
    Req(WithUrl(EmptyStr)),
    Req(WithUrl(Num(123, 1))),
    Req(WithUrl(Str(Chars(<<"d", "a", "t", "a", ":", "i", "m", "a", "g", "e">>)))),
    Req(WithUrl(DataUrl(DataTextPrefix, 40))),
    Req(WithUrl(DataUrl(DataTextPrefix, MAX_IMAGE_DATAURL_CHARS + 1))),
    Req(WithUrl(DataUrl(DataImagePrefix, MAX_IMAGE_DATAURL_CHARS))),
    Req(WithUrl(DataUrl(DataImagePrefix, MAX_IMAGE_DATAURL_CHARS + 1))) }

\* a chat completion with one choice whose message has this content
Completion(content) ==
  Obj(<<Ent("choices",
            Arr(<<Obj(<<Ent("message", Obj(<<Ent("content", content)>>))>>)>>))>>)

\* the reply text of a JSON value, as the model pads it
Reply(v) == Str(<<Run(" ", 1), Doc(v), Run("\n", 1)>>)

\* an object with the given properties; an undefined one is left out
Props(entries) == Obj(SelectSeq(entries, LAMBDA e : e.v # Undefined))

Finding(title, severity) ==
  Obj(<<Ent("title", Text(title)), Ent("severity", Text(severity)),
        Ent("finding", Text("finding")), Ent("why", Text("why")),
        Ent("fix", Text("fix"))>>)

Fix(c) == Str(<<Run(c, 1)>>)

GoodScore == Num(72, 1)
GoodTopFixes == Arr(<<Fix("a"), Fix("b"), Fix("c")>>)
GoodNarrative == Str(<<Run("n", 200)>>)
GoodLaws ==
  Obj(<<Ent("hicks", Finding("Hick's Law", "High")),
        Ent("fitts", Finding("Fitts's Law", "Low"))>>)

AIResult(s, tf, n, l) ==
  Props(<<Ent("score", s), Ent("narrative", n), Ent("topFixes", tf),
          Ent("laws", l)>>)

GoodResult == AIResult(GoodScore, GoodTopFixes, GoodNarrative, GoodLaws)

Completions ==
  { Obj(<<Ent("choices", EmptyArr)>>),
    Completion(Null),
    Completion(EmptyStr),
    Completion(Str(<<Run(" ", 2), Run("\n", 1)>>)),
    Completion(Str(<<Run(" ", 1), Run("o", 1), Run("k", 1), Run(" ", 1)>>)),
    Completion(Str(<<Doc(GoodResult), Run("x", 1)>>)),
    Completion(Str(<<Run("4", 1), Run("2", 1)>>)),
    Completion(Reply(Null)),
    Completion(Reply(AIResult(Num(111, 2), GoodTopFixes, GoodNarrative, GoodLaws))),
    Completion(Reply(GoodResult)) }

\* the ids a page is loaded with: those of the first max rows, and one
\* that no row has
PageIds(max) == { ReportId(n) : n \in 1..(max + 1) }

\* what a failing call throws: an error with a message, one without
Failures == { Error(Text("Connection error.")), Error(Text("")) }

----------------------------------------------------------------------------
(* The endpoint under concurrent requests *)

Init ==
  /\ apiKeySet \in BOOLEAN
  /\ reports = <<>>
  /\ handler = [h \in Handlers |-> Idle]
  /\ received = 0
  /\ page = NoPage
  /\ ui = NoUI
  /\ uploads = <<>>
  /\ fetches = <<>>
  /\ sheet = NoSheet

Next ==
  \E h \in Handlers :
    \/ \E req \in Requests : Receive(h, req, MaxRequests)
    \/ ReadBody(h)
    \/ \E completion \in Completions : ModelReturns(h, completion)
    \/ \E err \in Failures : ModelThrows(h, err)
    \/ CreateResolves(h)
    \/ \E err \in Failures \cup {IntegerExpectedError} : CreateThrows(h, err)
    \/ Deliver(h)

Spec == Init /\ [][Next]_vars

----------------------------------------------------------------------------
(* The endpoint on one valid request at a time, over the replies a model
   can give in place of the shape it is asked for *)

\* requests received over a whole behaviour of SpecSanitize
MaxSanitizeRequests == 1

Digits(cs) == Str(Chars(cs))

Scores ==
  { Undefined, Null, GoodScore, Num(0, 1), Num(100, 1), Num(150, 1),
    Num(0 - 5, 1), Num(111, 2), Bool(TRUE),
    EmptyStr, Digits(<<"4", "2">>), Digits(<<" ", "7", " ">>),
    Digits(<<"h", "i", "g", "h">>), Digits(<<"9", "0", "%">>),
    EmptyObj, EmptyArr, Arr(<<Num(5, 1)>>), Arr(<<Fix("a")>>),
    Arr(<<Num(1, 1), Num(2, 1)>>) }

TopFixesValues ==
  { Undefined, Null, Fix("a"), Num(3, 1), EmptyArr, Arr(<<Fix("a")>>),
    GoodTopFixes,
    Arr(<<Fix("a"), Fix("b"), Fix("c"), Fix("d")>>),
    Arr(<<Fix("e"), Fix("d"), Null, Fix("b"), Fix("a")>>),
    Arr(<<Fix("a"), Obj(<<Ent("fix", Fix("b"))>>)>>),
    Obj(<<Ent("0", Fix("a"))>>) }

Narratives ==
  { Undefined, Null, Num(5, 1), Arr(<<Fix("a")>>), EmptyStr, GoodNarrative,
    Str(<<Run("n", NARRATIVE_MAX_CHARS)>>),
    Str(<<Run("n", NARRATIVE_MAX_CHARS - 1), Run("x", 1), Run("y", 1)>>),
    Str(<<Run("n", NARRATIVE_MAX_CHARS + 500)>>) }

LawsValues ==
  { Undefined, Null, Fix("a"), Num(3, 1), EmptyArr,
    Arr(<<Finding("Hick's Law", "High")>>),
    EmptyObj, GoodLaws,
    Obj(<<Ent("hicks", Finding("Hick's Law", "High")),
          Ent("fitts", Finding("Fitts's Law", "Low")),
          Ent("jakobs", Finding("Jakob's Law", "Medium")),
          Ent("millers", Finding("Miller's Law", "None"))>>),
    Obj(<<Ent("hicks", Finding("Hick's Law", "Medium")),
          Ent("narrative", Num(7, 1))>>),
    Obj(<<Ent("narrative", Str(<<Run("m", NARRATIVE_MAX_CHARS + 100)>>))>>),
    Obj(<<Ent("narrative", Fix("z")), Ent("jakobs", Null)>>) }

\* the values a reply parses to: the requested shape with one field off,
\* every narrative with every laws, and values that are no object
Results ==
  { AIResult(s, GoodTopFixes, GoodNarrative, GoodLaws) : s \in Scores }
    \cup { AIResult(GoodScore, tf, GoodNarrative, GoodLaws) : tf \in TopFixesValues }
    \cup { AIResult(GoodScore, GoodTopFixes, n, l) : n \in Narratives, l \in LawsValues }
    \cup { EmptyObj, Num(42, 1), Fix("a"), Bool(FALSE), GoodTopFixes }

SanitizeCompletions == { Completion(Reply(v)) : v \in Results }

NextSanitize ==
  \/ Receive(1, GoodRequest, MaxSanitizeRequests)
  \/ ReadBody(1)
  \/ \E completion \in SanitizeCompletions : ModelReturns(1, completion)
  \/ \E err \in Failures : ModelThrows(1, err)
  \/ CreateResolves(1)
  \/ \E err \in Failures \cup {IntegerExpectedError} : CreateThrows(1, err)
  \/ Deliver(1)
  \/ \E id \in PageIds(MaxSanitizeRequests) : LoadPage(id)

SpecSanitize == Init /\ [][NextSanitize]_vars

----------------------------------------------------------------------------
(* The endpoint under concurrent requests, valid and invalid, next to
   loads of the report pages *)

\* requests received over a whole behaviour of SpecReports
MaxReportRequests == 3

ReportRequests == { GoodRequest, Req(WithUrl(DataUrl(DataTextPrefix, 40))) }

ReportCompletions ==
  { Completion(EmptyStr), Completion(Reply(GoodResult)),
    Completion(Reply(AIResult(Num(150, 1), EmptyArr, Undefined, Null))) }

NextReports ==
  \/ \E h \in Handlers :
       \/ \E req \in ReportRequests : Receive(h, req, MaxReportRequests)
       \/ ReadBody(h)
       \/ \E completion \in ReportCompletions : ModelReturns(h, completion)
       \/ \E err \in Failures : ModelThrows(h, err)
       \/ CreateResolves(h)
       \/ \E err \in Failures : CreateThrows(h, err)
       \/ Deliver(h)
  \/ \E id \in PageIds(MaxReportRequests) : LoadPage(id)

SpecReports == Init /\ [][NextReports]_vars

----------------------------------------------------------------------------
(* One client component under the files a user selects and the answers
   its requests get *)

\* files selected over a whole behaviour
MaxUploads == 2
\* analysis requests issued over a whole behaviour
MaxFetches == 2

\* a picture of this width and height with the data URL its canvas encodes
\* to, a file that is no picture, a file that cannot be read
Picture(width, height, len) ==
  [kind |-> "image", width |-> width, height |-> height,
   jpeg |-> DataUrl(DataImagePrefix, len)]
Corrupt == [kind |-> "corrupt"]
Unreadable == [kind |-> "unreadable"]

Files == { NoFile, Picture(800, 600, 40), Picture(800, 600, 41), Corrupt, Unreadable }

\* the answers of the endpoint, an error body without an error field, a
\* success body without a reportId, the body null, and a gateway's error
\* page
Responses ==
  { Res(Created([id |-> ReportId(1)])),
    Res(Created([id |-> ReportId(2)])),
    Res(MissingUpload),
    Res(Catch(Error(Text("")))),
    Res(Json(500, <<>>)),
    Res(Json(200, <<>>)),
    [status |-> 200, body |-> Req(Null)],
    NoJsonRes(502) }

\* what a failing fetch throws: an error with a message, one without
NetworkFailures == { Error(Text("Failed to fetch")), Error(Text("")) }

NextClient ==
  \/ \E variant \in Variants : Mount(variant)
  \/ \E file \in Files : HandleImageUpload(file, MaxUploads)
  \/ \E j \in 1..MaxUploads :
       \/ ReaderOnLoad(j)
       \/ ReaderOnError(j)
       \/ ImgOnError(j)
       \/ \E ctx \in BOOLEAN : ImgOnLoad(j, ctx, MaxFetches)
  \/ RunAnalysis(MaxFetches)
  \/ \E r \in 1..MaxFetches :
       \/ \E res \in Responses : FetchResolves(r, res)
       \/ \E err \in NetworkFailures : FetchRejects(r, err, MaxFetches)
       \/ ResJson(r, MaxFetches)

\* the endpoint is configured and idle
InitClient == Init /\ apiKeySet

SpecClient == InitClient /\ [][NextClient]_vars

----------------------------------------------------------------------------
(* One client component and the endpoint together: the requests of the
   component are the requests the endpoint receives, and its answers are
   the responses the component gets.  Execution h serves request h. *)

\* files selected over a whole behaviour
MaxAnalyzeUploads == 1
\* analysis requests issued over a whole behaviour, at most NumHandlers
MaxAnalyzeFetches == 2

\* pictures whose data URL passes the endpoint's validations, is "data:,"
\* (a canvas of height 0), or is longer than the endpoint accepts
AnalyzeFiles ==
  { Picture(800, 600, 40), Picture(4000, 1, 40),
    Picture(800, 600, MAX_IMAGE_DATAURL_CHARS + 1) }

AnalyzeCompletions ==
  { Completion(EmptyStr),
    Completion(Str(<<Run(" ", 1), Run("o", 1), Run("k", 1), Run(" ", 1)>>)),
    Completion(Reply(GoodResult)) }

AnalyzeFailures == { Error(Text("Connection error.")) }

\* body: JSON.stringify({ imageDataUrl }) reaches the endpoint
Arrives(h) ==
  /\ h \in 1..Len(fetches)
  /\ fetches[h].pc = "awaitFetch"
  /\ Receive(h, Req(WithUrl(fetches[h].url)), MaxAnalyzeFetches)

\* the response of execution h reaches the component
Answers(h) ==
  /\ handler[h].pc = "done"
  /\ FetchResolves(h, Res(handler[h].response))

\* the execution ends once its response is out or its client is gone
Closes(h) ==
  /\ h \in 1..Len(fetches)
  /\ fetches[h].pc # "awaitFetch"
  /\ Deliver(h)

NextAnalyze ==
  \/ \E variant \in Variants : Mount(variant)
  \/ \E file \in AnalyzeFiles : HandleImageUpload(file, MaxAnalyzeUploads)
  \/ \E j \in 1..MaxUploads :
       \/ ReaderOnLoad(j)
       \/ ImgOnLoad(j, TRUE, MaxAnalyzeFetches)
  \/ RunAnalysis(MaxAnalyzeFetches)
  \/ \E h \in Handlers :
       \/ Arrives(h)
       \/ ReadBody(h)
       \/ \E completion \in AnalyzeCompletions : ModelReturns(h, completion)
       \/ \E err \in AnalyzeFailures : ModelThrows(h, err)
       \/ CreateResolves(h)
       \/ \E err \in AnalyzeFailures : CreateThrows(h, err)
       \/ Answers(h)
       \/ Closes(h)
       \/ \E err \in AnalyzeFailures : FetchRejects(h, err, MaxAnalyzeFetches)
       \/ ResJson(h, MaxAnalyzeFetches)

SpecAnalyze == Init /\ [][NextAnalyze]_vars

----------------------------------------------------------------------------
(* The bottom sheet under touches at any height of the viewport *)

Viewports == { 10, 20 }

\* touch.clientY: heights within both viewports
ClientYs == { 0, 2, 4, 6, 8, 10 }

NextSheet ==
  \/ \E innerHeight \in Viewports : MountSheet(innerHeight)
  \/ \E clientY \in ClientYs :
       \/ handleTouchStart(clientY)
       \/ handleTouchMove(clientY)
  \/ RenderSheet
  \/ FlushPassiveEffects
  \/ handleTouchEnd

SpecSheet == Init /\ [][NextSheet]_vars

----------------------------------------------------------------------------
(* The normalizer over pictures of many sizes: one file is selected and
   read, decoded and drawn in one component of any variant *)

\* files selected over a whole behaviour
MaxNormalizeUploads == 1

\* widths below, at and above MAX_W, among them widths whose quotient
\* MAX_W / width is no exact double
Widths == { 1, 640, 1199, 1200, 1201, 1600, 2400, 3600, 4000, 7200 }
Heights == { 1, 3, 600, 1201, 3000 }

Pictures == { Picture(w, h, 40) : w \in Widths, h \in Heights }

NextNormalize ==
  \/ \E variant \in Variants : Mount(variant)
  \/ \E file \in Pictures \cup {Corrupt, Unreadable} :
       HandleImageUpload(file, MaxNormalizeUploads)
  \/ \E j \in 1..MaxUploads :
       \/ ReaderOnLoad(j)
       \/ ReaderOnError(j)
       \/ ImgOnError(j)
       \/ \E ctx \in BOOLEAN : ImgOnLoad(j, ctx, MaxFetches)

SpecNormalize == InitClient /\ [][NextNormalize]_vars

----------------------------------------------------------------------------
(* Properties of the endpoint *)

Done(h) == handler[h].pc = "done"
Status(h) == handler[h].response.status
ErrorOf(h) == GetProp(handler[h].response.json, "error")
\* the imageDataUrl of the request an execution received
UrlOf(h) ==
  IF handler[h].req # Undefined /\ handler[h].req.parses
  THEN OptProp(handler[h].req.json, "imageDataUrl")
  ELSE Undefined
BodyRead(h) == handler[h].req # Undefined /\ handler[h].req.parses
ImagePrefixed(u) == IsRunStr(u) /\ StartsWith(u, DataImagePrefix)
ContentOf(h) == Content(handler[h].completion)
Replied(h) == handler[h].completion # Undefined
Persisted(h) == handler[h].report # Undefined

\* C1: an execution that answers 400, 413 or 500 has written no row: a
\* step that ends an execution with an error leaves the table as it was,
\* and the table changes only in the step of an execution that had parsed
\* and sanitized a reply and awaited the write, which appends that row and
\* answers 200.
C1_ErrorLeavesNoRow ==
  [][\A h \in Handlers :
       handler'[h] # handler[h] =>
         /\ (handler'[h].pc = "done"
               /\ handler'[h].response.status \in {400, 413, 500})
              => (reports' = reports /\ handler'[h].report = Undefined)
         /\ reports' # reports =>
              /\ handler[h].pc = "awaitCreate"
              /\ ~IsNullish(handler[h].parsed)
              /\ handler[h].data = CreateData(handler[h].body, handler[h].parsed)
              /\ handler'[h].pc = "done"
              /\ handler'[h].response.status = 200
              /\ reports' = Append(reports, handler'[h].report)]_vars

\* an execution failed after a non-empty reply while the table holds the
\* row of another request
C1_Witness ==
  \E h \in Handlers :
    /\ Done(h) /\ Status(h) = 500
    /\ Replied(h) /\ Truthy(handler[h].raw)
    /\ ~Persisted(h)
    /\ Len(reports) = 1

LongNonImage(u) ==
  /\ IsRunStr(u)
  /\ ~StartsWith(u, DataImagePrefix)
  /\ StrLen(u) > MAX_IMAGE_DATAURL_CHARS

\* C2: the credential is checked first, the payload second, the size last:
\* without the key every request is answered 500 before its body is read,
\* and with the key a text that is both not image-prefixed and longer than
\* 2,000,000 characters is answered 400, not 413.
C2_ValidationOrder ==
  \A h \in Handlers :
    Done(h) =>
      /\ ~apiKeySet =>
           Status(h) = 500 /\ handler[h].body = Undefined /\ handler[h].calls = 0
      /\ (apiKeySet /\ LongNonImage(UrlOf(h))) => Status(h) = 400

C2_Witness ==
  \E h \in Handlers :
    Done(h) /\ apiKeySet /\ LongNonImage(UrlOf(h)) /\ Status(h) = 400

\* C3: with the key set, a body with no imageDataUrl, an empty one, or one
\* that does not start with "data:image/" is answered 400 with an error
\* message, without a model call and without a row.
C3_InvalidPayloadIs400 ==
  \A h \in Handlers :
    (Done(h) /\ apiKeySet /\ BodyRead(h)
       /\ (~Truthy(UrlOf(h)) \/ ~ImagePrefixed(UrlOf(h))))
      => /\ Status(h) = 400
         /\ Truthy(ErrorOf(h))
         /\ handler[h].calls = 0
         /\ ~Persisted(h)

\* C4: with the key set and an image-prefixed imageDataUrl, the request is
\* answered 413, with no row and no model call, exactly when the text is
\* longer than 2,000,000 characters; one of exactly 2,000,000 characters
\* goes on to the model call.
C4_TooLargeIffOverCap ==
  \A h \in Handlers :
    (handler[h].body # Undefined /\ ImagePrefixed(UrlOf(h))) =>
      /\ (StrLen(UrlOf(h)) > MAX_IMAGE_DATAURL_CHARS)
           <=> (Done(h) /\ Status(h) = 413)
      /\ StrLen(UrlOf(h)) > MAX_IMAGE_DATAURL_CHARS
           => (handler[h].calls = 0 /\ ~Persisted(h))
      /\ StrLen(UrlOf(h)) <= MAX_IMAGE_DATAURL_CHARS => handler[h].calls = 1

C4_Witness ==
  \E h \in Handlers :
    /\ handler[h].pc = "awaitModel"
    /\ StrLen(UrlOf(h)) = MAX_IMAGE_DATAURL_CHARS

\* C5: a reply that is not empty and does not parse as JSON is answered
\* 500 with an error message and with raw equal to the trimmed reply text,
\* and no row is created.
C5_MalformedReplyCarriesRaw ==
  \A h \in Handlers :
    (Done(h) /\ Replied(h) /\ IsRunStr(ContentOf(h))
       /\ StrTrim(ContentOf(h)) # EmptyStr /\ ~JSONParse(ContentOf(h)).ok)
      => /\ Status(h) = 500
         /\ Truthy(ErrorOf(h))
         /\ GetProp(handler[h].response.json, "raw") = StrTrim(ContentOf(h))
         /\ ~Persisted(h)

\* a padded reply that is no JSON was answered with its trimmed text
C5_Witness ==
  \E h \in Handlers :
    /\ Done(h) /\ Status(h) = 500
    /\ GetProp(handler[h].response.json, "raw")
         = Str(<<Run("o", 1), Run("k", 1)>>)
    /\ ContentOf(h) # GetProp(handler[h].response.json, "raw")

\* C6: a reply that is absent, empty or only white space is answered 500
\* with an error message, and no row is created.
C6_EmptyReplyIs500 ==
  \A h \in Handlers :
    (Done(h) /\ Replied(h)
       /\ (IsNullish(ContentOf(h)) \/ StrTrim(ContentOf(h)) = EmptyStr))
      => /\ Status(h) = 500
         /\ Truthy(ErrorOf(h))
         /\ ~Persisted(h)

C6_Witness ==
  \E h \in Handlers :
    /\ Done(h) /\ Replied(h) /\ Status(h) = 500
    /\ IsRunStr(ContentOf(h)) /\ ContentOf(h) # EmptyStr
    /\ StrTrim(ContentOf(h)) = EmptyStr

ScoreInRange(x) ==
  /\ IsInteger(x)
  /\ NumLeq(Num(SCORE_MIN, 1), x)
  /\ NumLeq(x, Num(SCORE_MAX, 1))

NonNumeric(v) ==
  \/ IsNullish(v)
  \/ v.t \in {"object", "array"}
  \/ IsRunStr(v) /\ IsNaN(StringToNumber(v))

\* C8: a reply whose score is not numeric (a non-numeric string, an
\* object, a list, null, or absent) is sanitized to score 0, and the report
\* persisted for it has score 0.
C8_NonNumericScoreIsZero ==
  \A h \in Handlers :
    (handler[h].data # Undefined
       /\ NonNumeric(GetProp(handler[h].parsed, "score")))
      => /\ handler[h].data.score = Num(0, 1)
         /\ Persisted(h) => handler[h].report.score = Num(0, 1)

\* C9: whatever narrative and laws the reply carries, the value under
\* "narrative" of the stored laws is a text of at most 1500 characters, and
\* the empty text when the reply's narrative is not a text.
C9_StoredNarrativeBounded ==
  /\ \A i \in 1..Len(reports) :
       /\ IsRunStr(GetProp(reports[i].laws, "narrative"))
       /\ StrLen(GetProp(reports[i].laws, "narrative")) <= NARRATIVE_MAX_CHARS
  /\ \A h \in Handlers :
       (Persisted(h)
          /\ TypeOf(GetProp(handler[h].parsed, "narrative")) # "string")
         => GetProp(handler[h].report.laws, "narrative") = EmptyStr

\* C10: the persisted topFixes is a list of at most 3 elements, the first
\* min(3, n) elements of the reply's list in their order, and the empty
\* list when the reply's topFixes is not a list.
C10_TopFixesFirstThree ==
  /\ \A i \in 1..Len(reports) :
       IsArray(reports[i].topFixes)
         /\ Len(reports[i].topFixes.items) <= TOP_FIXES_MAX
  /\ \A h \in Handlers :
       Persisted(h) =>
         LET tf == GetProp(handler[h].parsed, "topFixes")
             kept == handler[h].report.topFixes
         IN IF IsArray(tf)
            THEN /\ Len(kept.items)
                      = (IF Len(tf.items) < 3 THEN Len(tf.items) ELSE 3)
                 /\ \A i \in 1..Len(kept.items) : kept.items[i] = tf.items[i]
            ELSE kept = EmptyArr

C10_Witness ==
  \E h \in Handlers :
    /\ Persisted(h)
    /\ IsArray(GetProp(handler[h].parsed, "topFixes"))
    /\ Len(GetProp(handler[h].parsed, "topFixes").items) = 5
    /\ Len(reports[Len(reports)].topFixes.items) = 3

\* a mapping: an object that is no list and not null
IsMapping(v) == v.t = "object"
Keys(v) == { OwnEntries(v)[i].k : i \in 1..Len(OwnEntries(v)) }

\* C11: the persisted laws keeps the reply's laws when that is a mapping
\* (its keys, next to "narrative", with their values); when the reply's
\* laws is absent, a list, a string, a number or null, the persisted laws
\* has the key "narrative" and no other.
C11_LawsKeptOnlyIfMapping ==
  \A h \in Handlers :
    Persisted(h) =>
      LET l == GetProp(handler[h].parsed, "laws")
          kept == handler[h].report.laws
      IN IF IsMapping(l)
         THEN /\ Keys(kept) = Keys(l) \cup {"narrative"}
              /\ \A k \in Keys(l) \ {"narrative"} :
                   GetProp(kept, k) = GetProp(l, k)
         ELSE Keys(kept) = {"narrative"}

\* the execution st passed the three validations, and the model's reply
\* was not empty and parsed as JSON
ParsedReply(st) ==
  /\ st.calls = 1
  /\ st.completion # Undefined
  /\ Truthy(st.raw)
  /\ JSONParse(st.raw).ok

Ends(h) == handler[h].pc # "done" /\ handler'[h].pc = "done"

\* the step appends exactly one row, which execution h reports with
\* status 200 under the row's id, holding the submitted data URL
CreatesRowOf(h) ==
  /\ Len(reports') = Len(reports) + 1
  /\ SubSeq(reports', 1, Len(reports)) = reports
  /\ LET row == reports'[Len(reports')]
     IN /\ \A i \in 1..Len(reports) : reports[i].id # row.id
        /\ handler'[h].response.status = 200
        /\ GetProp(handler'[h].response.json, "reportId") = row.id
        /\ row.imageDataUrl = GetProp(handler'[h].body, "imageDataUrl")

\* C12 as stated: an execution that passed the validations and got a
\* non-empty reply that parses as JSON ends by creating exactly one row,
\* with status 200, reportId the row's id, and the submitted data URL in
\* the row.
C12_ParsedReplyCreatesRow ==
  [][\A h \in Handlers :
       (Ends(h) /\ ParsedReply(handler'[h])) => CreatesRowOf(h)]_vars

\* C12 amended: when the reply parses to a value other than null, the
\* execution calls the store with the submitted data URL and ends either
\* by creating exactly one row (status 200, reportId the row's id, the
\* submitted data URL in the row), which happens only for an integer
\* score, or, when the store refuses or fails, with status 500 and no
\* row; a reply that parses to null ends with status 500 and no row.
C12_StoredReplyCreatesRow ==
  [][\A h \in Handlers :
       (Ends(h) /\ ParsedReply(handler'[h])) =>
         IF IsNullish(handler'[h].parsed)
         THEN handler'[h].response.status = 500 /\ reports' = reports
         ELSE /\ handler[h].pc = "awaitCreate"
              /\ handler[h].data.imageDataUrl
                   = GetProp(handler[h].body, "imageDataUrl")
              /\ \/ CreatesRowOf(h) /\ IsInteger(score(handler[h].parsed))
                 \/ /\ handler'[h].response.status = 500
                    /\ reports' = reports]_vars

\* a second row was created while the first execution's response was
\* still undelivered: two rows, two ids, each reported to its execution
C12_Witness ==
  /\ Len(reports) = 2
  /\ \A h \in Handlers :
       /\ Done(h) /\ Status(h) = 200 /\ ParsedReply(handler[h])
       /\ \E i \in 1..2 :
            /\ GetProp(handler[h].response.json, "reportId") = reports[i].id
            /\ reports[i].imageDataUrl = UrlOf(h)
  /\ handler[1].report # handler[2].report

\* C13: a row of the table is never changed and never removed: every step
\* (of a POST execution, whatever its end, and of a page load) leaves each
\* existing row where it was, with every field as it was.
C13_RowsNeverChange ==
  [][/\ Len(reports') >= Len(reports)
     /\ \A i \in 1..Len(reports) : reports'[i] = reports[i]]_vars

\* the page of the first row was loaded while a second row existed and a
\* further request had been refused
C13_Witness ==
  /\ Len(reports) = 2
  /\ page = RenderReport(reports[1])
  /\ \E h \in Handlers : Done(h) /\ Status(h) = 400

\* the errors thrown inside the handler
Errors ==
  Failures \cup { BodySyntaxError, StartsWithTypeError, NullReadTypeError,
                  IntegerExpectedError }

\* in this step execution h throws err: req.json() rejects, a validation
\* throws, the model call rejects, the reply parsed to null is read, or
\* the store's create rejects
Throws(h, err) ==
  \/ /\ handler[h].pc = "readBody"
     /\ handler'[h].pc = "done"
     /\ IF handler[h].req.parses
        THEN Validate(handler[h].req.json) = Throw(err)
        ELSE err = BodySyntaxError
  \/ ModelThrows(h, err)
  \/ /\ handler[h].pc = "awaitModel"
     /\ handler'[h].pc = "done"
     /\ handler'[h].parsed = Null
     /\ err = NullReadTypeError
  \/ CreateThrows(h, err)

\* C14: a failure thrown inside the handler ends the execution with a
\* response of status 500 whose error is the thrown error's message, or
\* "Internal server error" when the message is empty or missing, and the
\* table is left as it was.
C14_ThrownFailureIs500 ==
  [][\A h \in Handlers : \A err \in Errors :
       Throws(h, err) =>
         /\ handler'[h].pc = "done"
         /\ handler'[h].response.status = 500
         /\ GetProp(handler'[h].response.json, "error")
              = (IF Truthy(GetProp(err, "message"))
                 THEN GetProp(err, "message")
                 ELSE Text("Internal server error"))
         /\ reports' = reports
         /\ handler'[h].report = Undefined]_vars

\* the store's create failed with an error that has no message, next to
\* the row of another request
C14_Witness ==
  /\ Len(reports) = 1
  /\ \E h \in Handlers :
       /\ Done(h) /\ handler[h].data # Undefined /\ ~Persisted(h)
       /\ Status(h) = 500
       /\ ErrorOf(h) = Text("Internal server error")

----------------------------------------------------------------------------
(* Properties of the client components *)

InFlight(f) == f.pc \in {"awaitFetch", "awaitJson"}
NumInFlight == Cardinality({ r \in 1..Len(fetches) : InFlight(fetches[r]) })

\* C15: in HomePage, AnalyzePage and UploadButton alike, whatever the
\* order of file selections, reader and image completions, clicks and
\* responses, at most one request of the component is in flight.
C15_OneRequestInFlight == NumInFlight <= 1

\* request r completes in this step
Completes(r) == InFlight(fetches[r]) /\ fetches'[r].pc = "settled"

\* C16: in every variant, the step in which a request completes (by a
\* response that is ok, one that is not, or a failure of the fetch) leaves
\* isRunning false.
C16_CompletionClearsFlag ==
  [][\A r \in 1..Len(fetches) : Completes(r) => ~ui'.isRunning]_vars

\* upload j ends in this step without a data URL: the file could not be
\* read, the picture not decoded, or the canvas gave no 2D context
FailsToNormalize(j) ==
  uploads[j].pc \in {"reading", "decoding"} /\ uploads'[j].pc = "failed"

\* C17: in every variant, the step in which an upload fails to normalize
\* shows an error message to the user (the error state is set to a
\* message, or an alert is raised) and issues no request.
C17_NormalizeFailureShown ==
  [][\A j \in 1..Len(uploads) :
       FailsToNormalize(j) =>
         /\ Truthy(ui'.error) \/ Len(ui'.alerts) > Len(ui.alerts)
         /\ fetches' = fetches]_vars

\* the step shows message to the user: as the error state, or as one more
\* alert in UploadButton
Shows(message) ==
  IF ui.variant = "UploadButton"
  THEN ui'.alerts = Append(ui.alerts, message)
  ELSE ui'.error = message /\ ui'.alerts = ui.alerts

\* the response of r has arrived, and r completes in this step
CompletesWith(r) == fetches[r].pc = "awaitJson" /\ Completes(r)

StatusOk(res) == res.status \in 200..299

\* C18: the step in which a request ends without success shows an error
\* and does not navigate.  For a response that is not ok the message is
\* the error field of its body, or "Analysis failed" without one; when the
\* body is no JSON it is the message of the error res.json() throws; when
\* the fetch fails it is the message of the thrown error, or "Network
\* error" when that is empty.
C18_FailureSurfaced ==
  [][\A r \in 1..Len(fetches) :
       /\ (CompletesWith(r) /\ ~fetches[r].res.body.parses) =>
            /\ Shows(GetProp(BodySyntaxError, "message"))
            /\ ui'.location = ui.location
       /\ (CompletesWith(r) /\ fetches[r].res.body.parses
             /\ ~StatusOk(fetches[r].res)) =>
            /\ LET data == fetches[r].res.body.json
               IN IF ~IsNullish(data) /\ HasKey(OwnEntries(data), "error")
                  THEN Shows(GetProp(data, "error"))
                  ELSE Shows(Text("Analysis failed"))
            /\ ui'.location = ui.location
       /\ \A err \in NetworkFailures :
            FetchRejects(r, err, MaxFetches) =>
              /\ IF GetProp(err, "message") # Text("")
                 THEN Shows(GetProp(err, "message"))
                 ELSE Shows(Text("Network error"))
              /\ ui'.location = ui.location]_vars

\* two requests of one component ended without success, one by a response
\* with no error field, one by a fetch that failed without a message
C18_Witness ==
  /\ ui.variant = "UploadButton"
  /\ ui.alerts = <<Text("Analysis failed"), Text("Network error")>>
  /\ ui.location = Null
  /\ \A r \in 1..Len(fetches) : fetches[r].pc = "settled"

\* C19: the step in which a request gets a response that is ok and carries
\* reportId r navigates to /results/r, and the component navigates only in
\* a step in which a request of its own gets a response that is ok.
C19_NavigatesOnSuccessOnly ==
  [][/\ \A r \in 1..Len(fetches) :
          (CompletesWith(r) /\ StatusOk(fetches[r].res)
             /\ fetches[r].res.body.parses
             /\ ~IsNullish(fetches[r].res.body.json)
             /\ TypeOf(GetProp(fetches[r].res.body.json, "reportId")) = "string")
            => ui'.location
                 = [path |-> "/results/",
                    id |-> GetProp(fetches[r].res.body.json, "reportId")]
     /\ (ui.variant \in Variants /\ ui'.location # ui.location) =>
          \E r \in 1..Len(fetches) :
            CompletesWith(r) /\ StatusOk(fetches[r].res)]_vars

\* a component whose first request failed has navigated to the report of
\* its second
C19_Witness ==
  /\ ui.variant \in Variants
  /\ Len(fetches) = 2
  /\ ui.location = [path |-> "/results/", id |-> ReportId(2)]

----------------------------------------------------------------------------
(* Properties of the report page *)

\* this step loads the page of the report that execution h persisted
LoadsReportOf(h) ==
  /\ Persisted(h)
  /\ LoadPage(handler[h].report.id)

\* the law findings of the sanitized laws l, in property order, without
\* the reserved key
Findings(l) ==
  SelectSeq(KeyOrder(OwnEntries(l)), LAMBDA e : e.k # "narrative")

FirstN(seq, n) == SubSeq(seq, 1, IF Len(seq) < n THEN Len(seq) ELSE n)

\* the view shows finding e: its key, title, severity and finding text
ShowsFinding(card, e) ==
  /\ card.key = e.k
  /\ card.title = Shown(GetProp(e.v, "title"))
  /\ card.severity = Shown(GetProp(e.v, "severity"))
  /\ card.finding = Shown(GetProp(e.v, "finding"))

\* the view shows score s, the fixes f in order, narrative n and the
\* findings es in order
ShowsReport(view, s, f, n, es) ==
  /\ view.view = "report"
  /\ view.score = s
  /\ Len(view.topFixes) = Len(f.items)
  /\ \A i \in 1..Len(f.items) : view.topFixes[i] = Shown(f.items[i])
  /\ view.narrative = n
  /\ Len(view.findings) = Len(es)
  /\ \A i \in 1..Len(es) : ShowsFinding(view.findings[i], es[i])

C21_MissingIdNotFound ==
  [][\A id \in PageIds(MaxReportRequests) :
       (LoadPage(id) /\ \A i \in 1..Len(reports) : reports[i].id # id) =>
         /\ page' = NotFoundView
         /\ reports' = reports]_vars

\* an id that no row has was loaded while the table held rows
C21_Witness ==
  /\ page = NotFoundView
  /\ Len(reports) = 2
  /\ \E h \in Handlers : Done(h) /\ Status(h) = 200

\* C22: a decoded picture of width W >= 1 and height H is drawn on a canvas
\* whose width is round(W * min(1, 1200 / W)), that is W up to 1200 and 1200
\* above it; the canvas is never wider or higher than the picture, and a
\* picture with W <= 1200 keeps its width and its height.
C22_WidthAtMostMaxW ==
  [][\A j \in 1..MaxUploads :
       (ImgOnLoad(j, TRUE, MaxFetches) /\ uploads[j].file.width >= 1) =>
         LET W == uploads[j].file.width
             H == uploads[j].file.height
             canvas == uploads'[j].canvas
         IN /\ canvas.width = (IF W <= 1200 THEN W ELSE 1200)
            /\ canvas.width <= 1200
            /\ canvas.width <= W /\ canvas.height <= H
            /\ W <= 1200 => canvas.width = W /\ canvas.height = H]_vars

\* a picture of 1600 by 1201 was drawn on a canvas of 1200 by 901
C22_Witness ==
  \E j \in 1..Len(uploads) :
    /\ uploads[j].pc = "done"
    /\ uploads[j].canvas = [width |-> 1200, height |-> 901]

----------------------------------------------------------------------------
(* Properties of the component and the endpoint together *)

\* the three validations hold of the request execution h received
ValidationsPassed(h) ==
  /\ apiKeySet
  /\ ImagePrefixed(UrlOf(h))
  /\ StrLen(UrlOf(h)) <= MAX_IMAGE_DATAURL_CHARS

\* C23: an execution of POST calls the model at most once, and only for a
\* request that passed the three validations; the call is made in the step
\* that validated the body and in no later step, whatever the model or the
\* store answers.  The step in which a request of the component ends issues
\* no request: requests are issued only in the step that draws a selected
\* file or in the step of a click.
C23_NoRetry ==
  /\ [](\A h \in Handlers :
          /\ handler[h].calls <= 1
          /\ handler[h].calls = 1 => ValidationsPassed(h))
  /\ [][/\ \A h \in Handlers :
             handler'[h].calls > handler[h].calls => handler[h].pc = "readBody"
        /\ \A r \in 1..Len(fetches) :
             Completes(r) => Len(fetches') = Len(fetches) /\ received' = received
        /\ Len(fetches') > Len(fetches) =>
             \/ RunAnalysis(MaxAnalyzeFetches)
             \/ \E j \in 1..Len(uploads) : ImgOnLoad(j, TRUE, MaxAnalyzeFetches)]_vars

\* the model gave an empty reply to the one call of the execution, HomePage
\* shows the error of the answer, and its one request is the only one
C23_Witness ==
  /\ ui.variant = "HomePage"
  /\ ui.error = Text("Model returned empty response")
  /\ ~ui.isRunning
  /\ Len(fetches) = 1 /\ fetches[1].pc = "settled"
  /\ received = 1
  /\ handler[1].pc = "done" /\ handler[1].calls = 1

----------------------------------------------------------------------------
(* Properties of requests that are pending together *)

\* request r has a response that is ok and carries a reportId
Succeeds(r) ==
  /\ fetches[r].pc = "awaitJson"
  /\ StatusOk(fetches[r].res)
  /\ fetches[r].res.body.parses
  /\ ~IsNullish(fetches[r].res.body.json)
  /\ TypeOf(GetProp(fetches[r].res.body.json, "reportId")) = "string"

\* requests r and q are or were in flight together, and r still is: q is
\* in flight, or was sent after r and has ended
PendingTogether(r, q) ==
  /\ r # q
  /\ InFlight(fetches[r])
  /\ InFlight(fetches[q]) \/ q > r

\* C24: of two requests of one component that are in flight together, the
\* step that ends one leaves the other in flight as it was; and each of
\* them, when it ends with a response that is ok, navigates to the report
\* of that response, whether it was sent before or after the other and
\* whether or not the other has navigated already: the report shown in
\* the end is that of the response that resolved last.
C24_LastResponseWins ==
  [][\A r, q \in 1..Len(fetches) :
       (PendingTogether(r, q) /\ Completes(r)) =>
         /\ InFlight(fetches[q]) => fetches'[q] = fetches[q]
         /\ Succeeds(r) =>
              ui'.location
                = [path |-> "/results/",
                   id |-> GetProp(fetches[r].res.body.json, "reportId")]]_vars

\* the request sent second has navigated to report 2 while the request
\* sent first is in flight, its response, which carries report 1, being
\* read
C24_Witness ==
  /\ ui.variant = "UploadButton"
  /\ Len(fetches) = 2
  /\ fetches[2].pc = "settled"
  /\ ui.alerts = <<>>
  /\ ui.location = [path |-> "/results/", id |-> ReportId(2)]
  /\ fetches[1].pc = "awaitJson"
  /\ fetches[1].res = Res(Created([id |-> ReportId(1)]))

\* C25: a step of HomePage sends a request exactly if it changes
\* imagePreview to a value that is not null while isRunning is false, and
\* the request carries that value.  So a step that sets a preview while a
\* request is in flight sends nothing, the step in which that request
\* fails and isRunning returns to false sends nothing, and a step that
\* sets the preview to the value it has sends nothing.
C25_SentOnNewPreviewOnly ==
  [][ui.variant = "HomePage" =>
       /\ Len(fetches') > Len(fetches)
             <=> /\ ui'.imagePreview # ui.imagePreview
                 /\ ui'.imagePreview # Null
                 /\ ~ui.isRunning
       /\ Len(fetches') > Len(fetches) =>
            /\ Len(fetches') = Len(fetches) + 1
            /\ fetches'[Len(fetches')].url = ui'.imagePreview]_vars

\* HomePage shows a preview that was set while the request of another was
\* in flight; that request has failed, isRunning is false again, and no
\* second request was sent
C25_Witness ==
  /\ ui.variant = "HomePage"
  /\ Len(fetches) = 1 /\ fetches[1].pc = "settled"
  /\ ui.error # Null /\ ~ui.isRunning
  /\ ui.imagePreview # Null /\ ui.imagePreview # fetches[1].url
  /\ Len(uploads) = 2 /\ \A j \in 1..2 : uploads[j].pc = "done"

----------------------------------------------------------------------------
(* Properties of the bottom sheet *)

\* C26: dragY stays between 0 and 0.8 of the viewport height.  While no
\* drag is active the sheet changes only by a touchstart, which starts a
\* drag from the dragY of that moment.  A step that ends a drag leaves
\* isDragging false and dragY at 0.8 of the viewport height if the finger
\* had last dragged the sheet beyond 0.4 of it, and at 0 otherwise.
C26_SheetSnapsByLastPosition ==
  /\ [](sheet.mounted => sheet.dragY >= 0 /\ sheet.dragY <= maxDrag(sheet))
  /\ [][sheet.mounted =>
          /\ (~sheet.isDragging /\ sheet' # sheet) =>
               /\ sheet'.isDragging
               /\ sheet'.startDragYRef = sheet.dragY
               /\ sheet'.dragY = sheet.dragY
          /\ (sheet.isDragging /\ ~sheet'.isDragging) =>
               sheet'.dragY = IF sheet.position > threshold(sheet)
                              THEN maxDrag(sheet) ELSE 0]_vars

====
